---- MODULE Spec2Model ----
(***************************************************************************)
(* Doppelganger Engine (src/main.py): the POST /find-twin handler, its     *)
(* read-through Firestore cache, the Census extractor and the two Gemini   *)
(* calls, as a state machine of requests that step from one collaborator   *)
(* call to the next.                                                       *)
(*                                                                         *)
(* Four specifications: Spec (requests overlap freely), SpecSeq (one       *)
(* request at a time), SpecExtract (one call of fetch_census_demographics  *)
(* on a payload drawn from a family of payloads, followed by the two       *)
(* generator calls) and SpecLive (Spec with weak fairness of each          *)
(* request's next step: every collaborator call returns or raises).        *)
(*                                                                         *)
(* Representation of Python / JSON values:                                 *)
(*   - a Python str is [s |-> chars], chars a sequence of one-character    *)
(*     strings, so that int(), float() and str() can be computed character *)
(*     by character; the fixed names of Census variables, which the code   *)
(*     only compares for equality, are plain strings;                      *)
(*   - None is the record [t |-> "null"];                                  *)
(*   - a JSON array is [list |-> <<...>>] and a JSON object a record, so   *)
(*     that a list and an {"error": ...} object can be compared;           *)
(*   - a float is a decimal [m |-> mantissa, e |-> exponent] (m * 10^e),   *)
(*     normalised, or [special |-> "nan" | "inf" | "-inf"].                *)
(***************************************************************************)
EXTENDS Integers, Sequences, FiniteSets, TLC

\* ---------------------------------------------------------------------------
\* Bounds of the model
\* ---------------------------------------------------------------------------

\* number of requests the model lets arrive
MaxRequests == 2

\* ---------------------------------------------------------------------------
\* Python values
\* ---------------------------------------------------------------------------

None == [t |-> "null"]

DigitChars == <<"0", "1", "2", "3", "4", "5", "6", "7", "8", "9">>

IsDigit(c) == \E i \in 1..10 : DigitChars[i] = c

DigitVal(c) == (CHOOSE i \in 1..10 : DigitChars[i] = c) - 1

\* str.strip() / the whitespace int() and float() skip; the model's only
\* whitespace character is the space
RECURSIVE LStrip(_)
LStrip(s) == IF s # <<>> /\ Head(s) = " " THEN LStrip(Tail(s)) ELSE s

RECURSIVE RStrip(_)
RStrip(s) ==
  IF s # <<>> /\ s[Len(s)] = " " THEN RStrip(SubSeq(s, 1, Len(s) - 1)) ELSE s

Strip(s) == RStrip(LStrip(s))

\* str(n) for an int n: decimal digits, "-" in front of a negative number
RECURSIVE NatToStr(_)
NatToStr(n) ==
  IF n < 10 THEN <<DigitChars[n + 1]>>
  ELSE NatToStr(n \div 10) \o <<DigitChars[(n % 10) + 1]>>

IntToStr(n) == IF n < 0 THEN <<"-">> \o NatToStr(0 - n) ELSE NatToStr(n)

\* A run of decimal digits in which single underscores may separate digits
\* (PEP 515): the digits' value, or ok = FALSE. acc is the value so far,
\* prevDigit says whether the previous character was a digit.
RECURSIVE DigitRun(_, _, _)
DigitRun(s, acc, prevDigit) ==
  IF s = <<>> THEN [ok |-> prevDigit, v |-> acc]
  ELSE IF IsDigit(Head(s)) THEN DigitRun(Tail(s), acc * 10 + DigitVal(Head(s)), TRUE)
  ELSE IF Head(s) = "_" /\ prevDigit THEN DigitRun(Tail(s), acc, FALSE)
  ELSE [ok |-> FALSE, v |-> 0]

\* int(x): ok = FALSE stands for the ValueError (a str that is no integer
\* literal) or the TypeError (None) that int() raises
ParseInt(x) ==
  IF x = None THEN [ok |-> FALSE, v |-> 0]
  ELSE LET s == Strip(x.s)
           neg == s # <<>> /\ Head(s) = "-"
           signed == s # <<>> /\ Head(s) \in {"-", "+"}
           body == IF signed THEN Tail(s) ELSE s
           run == DigitRun(body, 0, FALSE)
       IN  [ok |-> run.ok, v |-> IF neg THEN 0 - run.v ELSE run.v]

\* ---- float() ----

RECURSIVE DigitCount(_)
DigitCount(s) ==
  IF s = <<>> THEN 0
  ELSE (IF IsDigit(Head(s)) THEN 1 ELSE 0) + DigitCount(Tail(s))

RECURSIVE Pow10(_)
Pow10(k) == IF k = 0 THEN 1 ELSE 10 * Pow10(k - 1)

\* position of the first character of s that is in cs, 0 if there is none
RECURSIVE FindChar(_, _, _)
FindChar(s, cs, i) ==
  IF i > Len(s) THEN 0
  ELSE IF s[i] \in cs THEN i
  ELSE FindChar(s, cs, i + 1)

\* a decimal float m * 10^e in normal form: no trailing zero in m, 0 is 0e0
RECURSIVE NormFloat(_, _)
NormFloat(m, e) ==
  IF m = 0 THEN [m |-> 0, e |-> 0]
  ELSE IF m % 10 = 0 THEN NormFloat(m \div 10, e + 1)
  ELSE [m |-> m, e |-> e]

LowerChar(c) ==
  CASE c = "I" -> "i" [] c = "N" -> "n" [] c = "F" -> "f" [] c = "A" -> "a"
    [] c = "T" -> "t" [] c = "Y" -> "y" [] OTHER -> c

Lower(s) == [i \in 1..Len(s) |-> LowerChar(s[i])]

\* float(x) for a str x: optional sign, then inf / infinity / nan, or digits
\* with an optional fraction and an optional exponent; ok = FALSE is the
\* ValueError. The sign of zero and binary rounding are not represented.
ParseFloat(x) ==
  LET s == Strip(x.s)
      neg == s # <<>> /\ Head(s) = "-"
      signed == s # <<>> /\ Head(s) \in {"-", "+"}
      body == IF signed THEN Tail(s) ELSE s
      low == Lower(body)
      ePos == FindChar(body, {"e", "E"}, 1)
      mant == IF ePos = 0 THEN body ELSE SubSeq(body, 1, ePos - 1)
      expo == IF ePos = 0 THEN <<>> ELSE SubSeq(body, ePos + 1, Len(body))
      expNeg == expo # <<>> /\ Head(expo) = "-"
      expSigned == expo # <<>> /\ Head(expo) \in {"-", "+"}
      expRun == DigitRun(IF expSigned THEN Tail(expo) ELSE expo, 0, FALSE)
      expVal == IF ePos = 0 THEN 0 ELSE IF expNeg THEN 0 - expRun.v ELSE expRun.v
      dot == FindChar(mant, {"."}, 1)
      ip == IF dot = 0 THEN mant ELSE SubSeq(mant, 1, dot - 1)
      fp == IF dot = 0 THEN <<>> ELSE SubSeq(mant, dot + 1, Len(mant))
      ipRun == DigitRun(ip, 0, FALSE)
      fpRun == DigitRun(fp, 0, FALSE)
      fl == DigitCount(fp)
      wellFormed ==
        /\ ip # <<>> \/ fp # <<>>
        /\ ip = <<>> \/ ipRun.ok
        /\ fp = <<>> \/ fpRun.ok
        /\ ePos = 0 \/ expRun.ok
      m == (IF ip = <<>> THEN 0 ELSE ipRun.v) * Pow10(fl)
           + (IF fp = <<>> THEN 0 ELSE fpRun.v)
  IN  IF low \in {<<"n", "a", "n">>} THEN [ok |-> TRUE, v |-> [special |-> "nan"]]
      ELSE IF low \in {<<"i", "n", "f">>, <<"i", "n", "f", "i", "n", "i", "t", "y">>}
        THEN [ok |-> TRUE, v |-> [special |-> IF neg THEN "-inf" ELSE "inf"]]
      ELSE IF ~wellFormed THEN [ok |-> FALSE, v |-> [m |-> 0, e |-> 0]]
      ELSE [ok |-> TRUE, v |-> NormFloat(IF neg THEN 0 - m ELSE m, expVal - fl)]

\* Python truthiness of a value that is a str or None
Truthy(x) == x # None /\ x.s # <<>>

\* ---------------------------------------------------------------------------
\* Census extractor: fetch_census_demographics
\* ---------------------------------------------------------------------------

\* The outcome of the GET on the Census API is one of
\*   [kind |-> "request_exception"]  requests.get or raise_for_status raises
\*   [kind |-> "bad_json"]           response.json() raises
\*   [kind |-> "json", data |-> rows] rows a sequence of rows, a row a
\*                                   sequence of cells; a header cell is a
\*                                   plain string, a value cell a str or None

\* a lookup by the position the column has in the list asked for
HeaderIndexByPosition(headers, field_name) ==
  LET asked == <<"NAME", "B01003_001E", "B01002_001E", "B09001_001E">>
  IN  IF \E i \in 1..Len(asked) : asked[i] = field_name
      THEN CHOOSE i \in 1..Len(asked) : asked[i] = field_name
      ELSE IF \E i \in 1..Len(headers) : headers[i] = field_name
      THEN CHOOSE i \in 1..Len(headers) : headers[i] = field_name
      ELSE 0

\* headers.index(field_name): the first position, 0 for the ValueError
HeaderIndex(headers, field_name) ==
  IF \E i \in 1..Len(headers) : headers[i] = field_name
  THEN CHOOSE i \in 1..Len(headers) :
         /\ headers[i] = field_name
         /\ \A j \in 1..(i - 1) : headers[j] # field_name
  ELSE 0

get_value(headers, values, field_name) ==
  LET index == HeaderIndex(headers, field_name)
  IN  IF index = 0 THEN 0
      ELSE IF index > Len(values) THEN 0
      ELSE LET parsed == ParseInt(values[index])
           IN  IF parsed.ok THEN parsed.v ELSE 0

get_string_value(headers, values, field_name) ==
  LET index == HeaderIndex(headers, field_name)
  IN  IF index = 0 THEN [s |-> <<>>]
      ELSE IF index > Len(values) THEN [s |-> <<>>]
      ELSE values[index]

\* the six male brackets only
Age65FieldsMaleOnly ==
  <<"B01001_020E", "B01001_021E", "B01001_022E", "B01001_023E", "B01001_024E",
    "B01001_025E">>

\* the twelve brackets of age 65 and over, six male and six female
Age65Fields ==
  <<"B01001_020E", "B01001_021E", "B01001_022E", "B01001_023E", "B01001_024E",
    "B01001_025E", "B01001_044E", "B01001_045E", "B01001_046E", "B01001_047E",
    "B01001_048E", "B01001_049E">>

RECURSIVE SumValues(_, _, _)
SumValues(headers, values, fields) ==
  IF fields = <<>> THEN 0
  ELSE get_value(headers, values, Head(fields))
       + SumValues(headers, values, Tail(fields))

\* float(get_string_value('B01002_001E') or 0)
MedianAgeOf(headers, values) ==
  LET raw == get_string_value(headers, values, "B01002_001E")
  IN  IF Truthy(raw) THEN ParseFloat(raw) ELSE [ok |-> TRUE, v |-> [m |-> 0, e |-> 0]]

\* a record that always carries the string of the request
ZipCodeOfRequest(zip_code, headers, values) == zip_code

\* get_string_value('zip code tabulation area') or zip_code
ZipCodeOf(zip_code, headers, values) ==
  LET echoed == get_string_value(headers, values, "zip code tabulation area")
  IN  IF Truthy(echoed) THEN echoed ELSE zip_code

\* a sum that leaves the doctorates out
education_graduate_no_doctorate(headers, values) ==
  get_value(headers, values, "B15003_023E")
  + get_value(headers, values, "B15003_024E")

\* master's, professional and doctorate degrees
education_graduate(headers, values) ==
  get_value(headers, values, "B15003_023E")
  + get_value(headers, values, "B15003_024E")
  + get_value(headers, values, "B15003_025E")

\* the dictionary built when the payload has a header row and a data row
BuildDemographics(zip_code, headers, values) ==
  LET total_population == get_value(headers, values, "B01003_001E")
      age_under_18 == get_value(headers, values, "B09001_001E")
      age_65_plus == SumValues(headers, values, Age65Fields)
      age_18_to_64 == total_population - age_under_18 - age_65_plus
  IN  [ name |-> get_string_value(headers, values, "NAME"),
        population |-> total_population,
        medianIncome |-> get_value(headers, values, "B19013_001E"),
        medianAge |-> MedianAgeOf(headers, values).v,
        raceWhite |-> get_value(headers, values, "B02001_002E"),
        raceBlack |-> get_value(headers, values, "B02001_003E"),
        raceNative |-> get_value(headers, values, "B02001_004E"),
        raceAsian |-> get_value(headers, values, "B02001_005E"),
        educationPopulation |-> get_value(headers, values, "B15003_001E"),
        educationBachelors |-> get_value(headers, values, "B15003_022E"),
        educationGraduate |-> education_graduate(headers, values),
        medianHomeValue |-> get_value(headers, values, "B25077_001E"),
        medianRent |-> get_value(headers, values, "B25064_001E"),
        housingUnits |-> get_value(headers, values, "B25002_001E"),
        ownerOccupied |-> get_value(headers, values, "B25002_002E"),
        renterOccupied |-> get_value(headers, values, "B25002_003E"),
        ageUnder18 |-> age_under_18,
        age18to64 |-> age_18_to_64,
        age65plus |-> age_65_plus,
        commuteTotal |-> get_value(headers, values, "B08301_001E"),
        commuteDrive |-> get_value(headers, values, "B08301_002E"),
        commutePublic |-> get_value(headers, values, "B08301_010E"),
        commuteWfh |-> get_value(headers, values, "B08301_021E"),
        zipCode |-> ZipCodeOf(zip_code, headers, values) ]

\* an extractor without the catch-all except clause: the ValueError of
\* float() leaves the function
fetch_census_demographics_no_catch_all(zip_code, upstream) ==
  IF upstream.kind # "json" THEN None
  ELSE IF Len(upstream.data) < 2 THEN None
  ELSE LET headers == upstream.data[1]
           values == upstream.data[2]
       IN  IF ~MedianAgeOf(headers, values).ok THEN [raised |-> "ValueError"]
           ELSE BuildDemographics(zip_code, headers, values)

\* fetch_census_demographics(zip_code) given the outcome of the GET: the
\* dictionary, or None when the call fails, the payload has fewer than two
\* rows, or building the dictionary raises (float() of the median age)
fetch_census_demographics(zip_code, upstream) ==
  IF upstream.kind # "json" THEN None
  ELSE IF Len(upstream.data) < 2 THEN None
  ELSE LET headers == upstream.data[1]
           values == upstream.data[2]
       IN  IF ~MedianAgeOf(headers, values).ok THEN None
           ELSE BuildDemographics(zip_code, headers, values)

\* ---------------------------------------------------------------------------
\* Gemini calls: get_gemini_profile, find_doppelgangers
\* ---------------------------------------------------------------------------

\* a message: a literal text, or an f-string with the values it embeds
Msg(text, args) == [text |-> text, args |-> args]

\* The outcome of model.generate_content followed by json.loads is one of
\*   [kind |-> "raises"]               the call raises
\*   [kind |-> "not_json"]             json.loads(response.text) raises
\*   [kind |-> "json", value |-> v]    the parsed reply v

ProfileError == [error |-> Msg("Failed to generate Gemini profile.", <<>>)]

DoppelgangersError == [error |-> Msg("Failed to find doppelgangers.", <<>>)]

\* a division without the test of its denominator
PercentUnguarded(numerator, denominator) ==
  IF denominator = 0 THEN [raised |-> TRUE, tenths |-> 0]
  ELSE [raised |-> FALSE,
        tenths |-> (2000 * numerator + denominator) \div (2 * denominator)]

\* `numerator / denominator * 100 if denominator > 0 else 0`, kept in tenths
\* of a percent, rounded, as format_percent prints it (the error of the
\* binary representation is not represented); raised = TRUE would be the
\* ZeroDivisionError
Percent(numerator, denominator) ==
  IF denominator > 0
    THEN [raised |-> FALSE,
          tenths |-> (2000 * numerator + denominator) \div (2 * denominator)]
    ELSE [raised |-> FALSE, tenths |-> 0]

\* the derived metrics of get_gemini_profile
profile_percents(data) ==
  [higher_ed_percent |->
     Percent(data.educationBachelors + data.educationGraduate, data.educationPopulation),
   owner_occupied_percent |-> Percent(data.ownerOccupied, data.housingUnits),
   wfh_percent |-> Percent(data.commuteWfh, data.commuteTotal),
   age_under_18_percent |-> Percent(data.ageUnder18, data.population),
   age_65_plus_percent |-> Percent(data.age65plus, data.population)]

\* the derived metrics of find_doppelgangers
doppelganger_percents(data) ==
  [higher_ed_percent |->
     Percent(data.educationBachelors + data.educationGraduate, data.educationPopulation),
   owner_occupied_percent |-> Percent(data.ownerOccupied, data.housingUnits)]

PercentsRaised(percents) == \E f \in DOMAIN percents : percents[f].raised

\* what a generator gives when an exception leaves it: the metrics and the
\* prompt are computed before its try
Raised == [raised |-> "ZeroDivisionError"]

\* a profile generator whose except clause returns the other function's message
get_gemini_profile_wrong_error(data, reply) ==
  IF PercentsRaised(profile_percents(data)) THEN Raised
  ELSE IF reply.kind = "json" THEN reply.value
  ELSE [error |-> Msg("Failed to find doppelgangers.", <<>>)]

get_gemini_profile(data, reply) ==
  IF PercentsRaised(profile_percents(data)) THEN Raised
  ELSE IF reply.kind = "json" THEN reply.value
  ELSE ProfileError

find_doppelgangers(data, reply) ==
  IF PercentsRaised(doppelganger_percents(data)) THEN Raised
  ELSE IF reply.kind = "json" THEN reply.value
  ELSE DoppelgangersError

\* ---------------------------------------------------------------------------
\* The handler's pure steps
\* ---------------------------------------------------------------------------

Str(chars) == [s |-> chars]

\* a conversion that writes a number the way str() writes a float
PyStrAsFloat(v) ==
  IF v = None THEN Str(<<"N", "o", "n", "e">>)
  ELSE IF "n" \in DOMAIN v THEN Str(IntToStr(v.n) \o <<".", "0">>)
  ELSE v

\* str(v) of a JSON scalar: a str is itself, an int its decimal digits,
\* null is "None"
PyStr(v) ==
  IF v = None THEN Str(<<"N", "o", "n", "e">>)
  ELSE IF "n" \in DOMAIN v THEN Str(IntToStr(v.n))
  ELSE v

ZipCodeKey == <<"z", "i", "p", "_", "c", "o", "d", "e">>

\* needle in haystack, for two str
IsSubstring(needle, hay) ==
  \E i \in 1..(Len(hay) - Len(needle) + 1) :
    SubSeq(hay, i, i + Len(needle) - 1) = needle

\* A parsed JSON body is None, a number [n |-> k], a str [s |-> chars], an
\* array [list |-> <<...>>] of str, or an object [obj |-> keys, zip_code |-> v]
\* (keys the set of its keys, v the value under "zip_code" if it has one).

\* `not data`
BodyFalsy(data) ==
  \/ data = None
  \/ "n" \in DOMAIN data /\ data.n = 0
  \/ "s" \in DOMAIN data /\ data.s = <<>>
  \/ "list" \in DOMAIN data /\ data.list = <<>>
  \/ "obj" \in DOMAIN data /\ data.obj = {}

\* 'zip_code' in data: "yes", "no", or "TypeError" (a number is no container)
BodyContains(data) ==
  IF "n" \in DOMAIN data THEN "TypeError"
  ELSE IF "s" \in DOMAIN data
    THEN (IF IsSubstring(ZipCodeKey, data.s) THEN "yes" ELSE "no")
  ELSE IF "list" \in DOMAIN data
    THEN (IF \E i \in 1..Len(data.list) : data.list[i] = Str(ZipCodeKey)
          THEN "yes" ELSE "no")
  ELSE (IF "zip_code" \in data.obj THEN "yes" ELSE "no")

MissingZipResponse ==
  [status |-> 400, body |-> [error |-> Msg("Missing 'zip_code' in JSON body", <<>>)]]

\* a not-found answer that does not name the ZIP code
NotFoundResponseNoZip(zip_code) ==
  [status |-> 404,
   body |-> [error |-> Msg("No demographic data found for ZIP code {zip_code}.", <<>>)]]

NotFoundResponse(zip_code) ==
  [status |-> 404,
   body |-> [error |-> Msg("No demographic data found for ZIP code {zip_code}.",
                           <<zip_code>>)]]

InternalErrorResponse ==
  [status |-> 500, body |-> [error |-> Msg("An internal server error occurred.", <<>>)]]

OptionsResponse == [status |-> 200, body |-> [text |-> <<>>]]

\* a hit that answers with the demographics alone
HitResponseDemographicsOnly(doc) == [status |-> 200, body |-> doc.demographics]

\* return jsonify(cached_data.to_dict()), 200
HitResponse(doc) == [status |-> 200, body |-> doc]

\* final_result and return jsonify(final_result), 200
FinalResult(demographics, profile, doppelgangers) ==
  [demographics |-> demographics, profile |-> profile, doppelgangers |-> doppelgangers]

FreshResponse(final_result) == [status |-> 200, body |-> final_result]

\* Step 1 of the handler on the outcome of request.get_json(), which is
\* [kind |-> "raises"] or [kind |-> "returns", data |-> parsed body]:
\*   "get_json"   request.get_json() raised
\*   "body_check" `'zip_code' not in data` or data['zip_code'] raised TypeError
\*   "missing"    the 400 answer
\*   "ok"         zip_code is set
ValidateBody(parsed) ==
  IF parsed.kind = "raises" THEN [result |-> "get_json", zip_code |-> None]
  ELSE IF BodyFalsy(parsed.data) THEN [result |-> "missing", zip_code |-> None]
  ELSE IF BodyContains(parsed.data) = "TypeError"
    THEN [result |-> "body_check", zip_code |-> None]
  ELSE IF BodyContains(parsed.data) = "no" THEN [result |-> "missing", zip_code |-> None]
  ELSE IF "obj" \notin DOMAIN parsed.data
    THEN [result |-> "body_check", zip_code |-> None]
  ELSE [result |-> "ok", zip_code |-> PyStr(parsed.data.zip_code)]

\* ---------------------------------------------------------------------------
\* The environment: request bodies, Census payloads, Gemini replies
\* ---------------------------------------------------------------------------

Zip90210 == Str(<<"9", "0", "2", "1", "0">>)

\* the wildcard of the Census API: `for=zip code tabulation area:*` asks for
\* every area, and the first data row is that of the first area, 00601
ZipWildcard == Str(<<"*">>)

Zip00601 == Str(<<"0", "0", "6", "0", "1">>)

\* the geography id in the first data row of the answer to the GET for
\* zip_code
Echoed(zip_code) == IF zip_code = ZipWildcard THEN Zip00601 ELSE zip_code

\* the values a request carries under "zip_code": two strings and a number
ZipValues == {Zip90210, ZipWildcard, [n |-> 90210]}

\* the document ids of the zip_cache collection these requests can touch
Keys == {PyStr(v) : v \in ZipValues}

JsonBodies ==
  {None, [n |-> 5], Str(ZipCodeKey), [list |-> <<Str(ZipCodeKey)>>],
   [obj |-> {}, zip_code |-> None],
   [obj |-> {"zip"}, zip_code |-> None]}
  \cup {[obj |-> {"zip_code"}, zip_code |-> v] : v \in ZipValues}

\* what a POST carries: no body, a body that is not JSON, or a JSON value
Bodies ==
  {[kind |-> "absent"], [kind |-> "malformed"]}
  \cup {[kind |-> "json", data |-> v] : v \in JsonBodies}

\* request.get_json(): an absent body gives None or raises (415 / 400),
\* depending on the Flask version and the Content-Type header; a body that
\* is not JSON raises BadRequest
GetJsonOutcomes(body) ==
  IF body.kind = "absent"
    THEN {[kind |-> "returns", data |-> None], [kind |-> "raises"]}
  ELSE IF body.kind = "malformed" THEN {[kind |-> "raises"]}
  ELSE {[kind |-> "returns", data |-> body.data]}

\* the variables list of fetch_census_demographics, and the geography column
\* the Census API appends
Variables ==
  <<"NAME", "B01003_001E", "B01002_001E", "B09001_001E", "B01001_020E",
    "B01001_021E", "B01001_022E", "B01001_023E", "B01001_024E", "B01001_025E",
    "B01001_044E", "B01001_045E", "B01001_046E", "B01001_047E", "B01001_048E",
    "B01001_049E", "B19013_001E", "B25077_001E", "B25064_001E", "B02001_002E",
    "B02001_003E", "B02001_004E", "B02001_005E", "B15003_001E", "B15003_022E",
    "B15003_023E", "B15003_024E", "B15003_025E", "B25002_001E", "B25002_002E",
    "B25002_003E", "B08301_001E", "B08301_002E", "B08301_010E", "B08301_021E">>

CensusHeaders == Variables \o <<"zip code tabulation area">>

\* a data row in the order of CensusHeaders: the name, the population, the
\* median age as a str, the other 32 counts, the echoed geography id
CensusRow(name, population, median_age, counts, geo) ==
  <<name, Str(IntToStr(population)), median_age>>
  \o [i \in 1..Len(counts) |-> Str(IntToStr(counts[i]))]
  \o <<geo>>

AreaName(zip_code) == Str(<<"Z", "C", "T", "A", "5", " ">> \o zip_code.s)

\* population 20000, 3000 under 18, twelve brackets summing to 5000,
\* median income 150000
CountsA ==
  <<3000, 500, 500, 500, 500, 500, 500, 400, 400, 400, 400, 200, 200,
    150000, 900000, 2500, 15000, 500, 100, 2000, 14000, 5000, 2000, 1500, 500,
    9000, 5000, 3000, 10000, 6000, 300, 2000>>

\* the same area after a new release of the survey
CountsB ==
  <<3100, 500, 500, 500, 500, 500, 500, 400, 400, 400, 400, 200, 200,
    155000, 950000, 2600, 15000, 500, 100, 2000, 14000, 5000, 2000, 1500, 500,
    9000, 5000, 3000, 10000, 6000, 300, 2000>>

\* what the Census API may answer to the GET for zip_code
Upstream(zip_code) ==
  { [kind |-> "request_exception"],
    [kind |-> "bad_json"],
    [kind |-> "json", data |-> <<>>],
    [kind |-> "json", data |-> <<CensusHeaders>>],
    [kind |-> "json",
     data |-> <<CensusHeaders,
                CensusRow(AreaName(Echoed(zip_code)), 20000, Str(<<"3", "8", ".", "5">>),
                          CountsA, Echoed(zip_code))>>],
    [kind |-> "json",
     data |-> <<CensusHeaders,
                CensusRow(AreaName(Echoed(zip_code)), 20500, Str(<<"3", "9">>),
                          CountsB, Echoed(zip_code))>>],
    [kind |-> "json",
     data |-> <<CensusHeaders,
                CensusRow(AreaName(Echoed(zip_code)), 20000, Str(<<"N", "/", "A">>),
                          CountsA, Echoed(zip_code))>>] }

\* Upstream and fetch_census_demographics tabulated over the document ids,
\* so that they are computed once
UpstreamOf == [k \in Keys |-> Upstream(k)]

DemographicsOf ==
  [k \in Keys |-> [u \in Upstream(k) |-> fetch_census_demographics(k, u)]]

Text(k) == Str(<<"t", "e", "x", "t", DigitChars[k + 1]>>)

ProfileReplies ==
  {[kind |-> "raises"], [kind |-> "not_json"]}
  \cup {[kind |-> "json",
         value |-> [whoAreWe |-> Text(k),
                    ourNeighborhood |-> [list |-> <<Text(k), Text(k), Text(k)>>],
                    socioeconomicTraits |-> [list |-> <<Text(k), Text(k), Text(k)>>]]]
        : k \in 1..1}

Candidate(k) ==
  [zipCode |-> Str(<<"0", "0", "0", "0", DigitChars[k + 1]>>), city |-> Text(k),
   state |-> Str(<<"N", "Y">>), similarityReason |-> Text(k),
   similarityPercentage |-> 90 + k]

DoppelgangerReplies ==
  {[kind |-> "raises"], [kind |-> "not_json"]}
  \cup {[kind |-> "json", value |-> [list |-> <<Candidate(k)>>]] : k \in 1..1}

\* ---------------------------------------------------------------------------
\* Payloads for fetch_census_demographics looked at on its own
\* ---------------------------------------------------------------------------

\* how far a payload's columns are rotated
MaxShift == 2

NonNumeric == Str(<<"N", "/", "A">>)

\* a row of zeros
CountsZero == [i \in 1..Len(CountsA) |-> 0]

\* the data rows a payload starts from: a consistent area, an area of zeros,
\* and an area whose age bands exceed its population
BaseRows(zip_code) ==
  { CensusRow(AreaName(Echoed(zip_code)), 20000, Str(<<"3", "8", ".", "5">>), CountsA, Echoed(zip_code)),
    CensusRow(AreaName(Echoed(zip_code)), 0, Str(<<"0", ".", "0">>), CountsZero, Echoed(zip_code)),
    CensusRow(AreaName(Echoed(zip_code)), 1000, Str(<<"7", "1">>), CountsA, Echoed(zip_code)) }

\* what can be wrong with one column of a payload
Defects == {"none", "missing", "non_numeric", "null", "beyond_row"}

RemoveAt(seq, i) == SubSeq(seq, 1, i - 1) \o SubSeq(seq, i + 1, Len(seq))

\* the payload of headers and row with column c absent from both, holding a
\* text that is no number, holding null, or with the row ending before it
Defective(headers, row, c, defect) ==
  IF defect = "missing" THEN <<RemoveAt(headers, c), RemoveAt(row, c)>>
  ELSE IF defect = "non_numeric" THEN <<headers, [row EXCEPT ![c] = NonNumeric]>>
  ELSE IF defect = "null" THEN <<headers, [row EXCEPT ![c] = None]>>
  ELSE IF defect = "beyond_row" THEN <<headers, SubSeq(row, 1, c - 1)>>
  ELSE <<headers, row>>

Rotate(seq, k) ==
  [i \in 1..Len(seq) |-> seq[((i + k - 1) % Len(seq)) + 1]]

Reverse(seq) == [i \in 1..Len(seq) |-> seq[Len(seq) + 1 - i]]

\* the permutations applied to the columns: a rotation, then maybe a reversal
ColumnPermutations == [shift : 0..MaxShift, reversed : BOOLEAN]

Identity == [shift |-> 0, reversed |-> FALSE]

PermuteRow(seq, perm) ==
  IF perm.reversed THEN Reverse(Rotate(seq, perm.shift)) ELSE Rotate(seq, perm.shift)

\* the same permutation applied to the header row and to the data row
Permuted(data, perm) == [i \in 1..Len(data) |-> PermuteRow(data[i], perm)]

\* the payloads with a header row and a data row, before any permutation
BasePayloads(zip_code) ==
  { Defective(CensusHeaders, row, c, defect) :
      row \in BaseRows(zip_code), c \in 1..Len(CensusHeaders), defect \in Defects }

\* a permutation of the columns needs both rows to have the same columns
PermutationsOf(data) ==
  IF Len(data[1]) = Len(data[2]) THEN ColumnPermutations ELSE {Identity}

\* ---------------------------------------------------------------------------
\* State
\* ---------------------------------------------------------------------------

VARIABLES
  db,      \* TRUE iff firestore.Client() succeeded at start-up
  cache,   \* the zip_cache collection: document id -> document, None if absent
  req,     \* the requests; for each its place in handle_find_twin and its locals
  ext      \* one call of fetch_census_demographics looked at on its own

vars == <<db, cache, req, ext>>

Requests == 1..MaxRequests

NoCalls == [get |-> 0, set |-> 0, census |-> 0, profile |-> 0, doppel |-> 0]

\* pc       where the request is: "idle" (not arrived), "cache_get", "fetch",
\*          "profile", "doppel", "cache_set", "done" (response returned)
\* method, input   the HTTP method and, once the handler has read it, the body
\* zip_code, demographics, profile, doppelgangers   the handler's locals
\* status, body    the response
\* and, to tell afterwards what happened to the request:
\* hit        cached_data.exists was true
\* extracted  fetch_census_demographics returned a dictionary
\* profile_raised, doppel_raised   the Gemini call or json.loads raised
\* set_failed cache_ref.set raised
\* raised     the step whose exception reached the handler's except clause:
\*            "none", "get_json", "body_check", "cache_get", "profile", "doppel"
\* calls      how many times each collaborator was called
IdleRequest ==
  [pc |-> "idle", method |-> "", input |-> None, zip_code |-> None,
   demographics |-> None, profile |-> None, doppelgangers |-> None,
   status |-> 0, body |-> None, hit |-> FALSE, extracted |-> FALSE,
   profile_raised |-> FALSE, doppel_raised |-> FALSE, set_failed |-> FALSE,
   raised |-> "none", calls |-> NoCalls]

\* no call of the extractor is looked at on its own
NoExtraction == [pc |-> "none"]

Init ==
  /\ db \in BOOLEAN
  /\ cache = [k \in Keys |-> None]
  /\ req = [r \in Requests |-> IdleRequest]
  /\ ext = NoExtraction

\* ---------------------------------------------------------------------------
\* handle_find_twin, one action per collaborator call
\* ---------------------------------------------------------------------------

\* the request returns resp; the locals demographics, profile, doppelgangers
\* go out of scope (zip_code is kept, to tell which ZIP the request was for)
Respond(q, resp) ==
  [q EXCEPT !.pc = "done", !.status = resp.status, !.body = resp.body,
            !.demographics = None, !.profile = None, !.doppelgangers = None]

\* an except clause that answers 400 instead of 500
FailAsBadRequest(q, step) == Respond([q EXCEPT !.raised = step], MissingZipResponse)

\* an exception raised at step reaches `except Exception`
Fail(q, step) == Respond([q EXCEPT !.raised = step], InternalErrorResponse)

Bump(calls, what) == [calls EXCEPT ![what] = @ + 1]

\* a handler that reads the cache without testing db
FirstStepNoTest(store) == "cache_get"

\* a handler that calls the Census API before looking at the cache
FirstStepSkipsCache(store) == "fetch"

\* `if db:` after the body is accepted: where the handler goes next
FirstStep(store) == IF store THEN "cache_get" ELSE "fetch"

\* A request arrives (requests are numbered in order of arrival) and the
\* handler runs up to its first collaborator call: the OPTIONS short cut,
\* request.get_json(), the check of the body, str(), and `if db`.
Receive(r) ==
  /\ req[r].pc = "idle"
  /\ IF r = 1 THEN TRUE ELSE req[r - 1].pc # "idle"
  /\ \E method \in {"POST", "OPTIONS"}, body \in Bodies :
       \E parsed \in GetJsonOutcomes(body) :
         LET o == [req[r] EXCEPT !.method = method]
             q == [o EXCEPT !.input = body]
             v == ValidateBody(parsed)
         IN  req' = [req EXCEPT ![r] =
               IF method = "OPTIONS" THEN Respond(o, OptionsResponse)
               ELSE IF v.result \in {"get_json", "body_check"} THEN Fail(q, v.result)
               ELSE IF v.result = "missing" THEN Respond(q, MissingZipResponse)
               ELSE [q EXCEPT !.zip_code = v.zip_code,
                              !.pc = FirstStep(db)]]
  /\ UNCHANGED <<db, cache, ext>>

\* cache_ref = db.collection('zip_cache').document(zip_code); cache_ref.get():
\* the read raises, or finds the document (hit), or finds none (miss)
CacheGet(r) ==
  /\ req[r].pc = "cache_get"
  /\ \E ok \in BOOLEAN :
       LET q == [req[r] EXCEPT !.calls = Bump(@, "get")]
           cached_data == cache[q.zip_code]
       IN  req' = [req EXCEPT ![r] =
             IF ~ok THEN Fail(q, "cache_get")
             ELSE IF cached_data # None
               THEN Respond([q EXCEPT !.hit = TRUE], HitResponse(cached_data))
             ELSE [q EXCEPT !.pc = "fetch"]]
  /\ UNCHANGED <<db, cache, ext>>

\* demographics = fetch_census_demographics(zip_code) and the 404 answer
Fetch(r) ==
  /\ req[r].pc = "fetch"
  /\ \E upstream \in UpstreamOf[req[r].zip_code] :
       LET q == [req[r] EXCEPT !.calls = Bump(@, "census")]
           demographics == DemographicsOf[q.zip_code][upstream]
       IN  req' = [req EXCEPT ![r] =
             IF demographics = None THEN Respond(q, NotFoundResponse(q.zip_code))
             ELSE [q EXCEPT !.demographics = demographics, !.extracted = TRUE,
                            !.pc = "profile"]]
  /\ UNCHANGED <<db, cache, ext>>

\* profile = get_gemini_profile(demographics)
GetProfile(r) ==
  /\ req[r].pc = "profile"
  /\ \E reply \in ProfileReplies :
       LET profile == get_gemini_profile(req[r].demographics, reply)
       IN  req' = [req EXCEPT ![r] =
             IF profile = Raised THEN Fail(@, "profile")
             ELSE [@ EXCEPT !.calls = Bump(@, "profile"),
                            !.profile = profile,
                            !.profile_raised = reply.kind # "json",
                            !.pc = "doppel"]]
  /\ UNCHANGED <<db, cache, ext>>

\* doppelgangers = find_doppelgangers(demographics), final_result, `if db`;
\* without a store the response follows at once
FindDoppelgangers(r) ==
  /\ req[r].pc = "doppel"
  /\ \E reply \in DoppelgangerReplies :
       LET doppelgangers == find_doppelgangers(req[r].demographics, reply)
           q == [req[r] EXCEPT !.calls = Bump(@, "doppel"),
                               !.doppelgangers = doppelgangers,
                               !.doppel_raised = reply.kind # "json"]
           final_result == FinalResult(q.demographics, q.profile, q.doppelgangers)
       IN  req' = [req EXCEPT ![r] =
             IF doppelgangers = Raised THEN Fail(req[r], "doppel")
             ELSE IF db THEN [q EXCEPT !.pc = "cache_set"]
             ELSE Respond(q, FreshResponse(final_result))]
  /\ UNCHANGED <<db, cache, ext>>

\* a persist step whose write never reaches the store
CacheSetDropsWrite(r) ==
  /\ req[r].pc = "cache_set"
  /\ \E ok \in BOOLEAN :
       LET q == [req[r] EXCEPT !.calls = Bump(@, "set"), !.set_failed = ~ok]
           final_result == FinalResult(q.demographics, q.profile, q.doppelgangers)
       IN  req' = [req EXCEPT ![r] = Respond(q, FreshResponse(final_result))]
  /\ UNCHANGED <<db, cache, ext>>

\* a persist step without its own try: a failed write reaches the handler's
\* except clause
CacheSetUnguarded(r) ==
  /\ req[r].pc = "cache_set"
  /\ \E ok \in BOOLEAN :
       LET q == [req[r] EXCEPT !.calls = Bump(@, "set"), !.set_failed = ~ok]
           final_result == FinalResult(q.demographics, q.profile, q.doppelgangers)
       IN  /\ cache' = IF ok THEN [cache EXCEPT ![q.zip_code] = final_result]
                       ELSE cache
           /\ req' = [req EXCEPT ![r] =
                 IF ok THEN Respond(q, FreshResponse(final_result))
                 ELSE Fail(q, "cache_set")]
  /\ UNCHANGED <<db, ext>>

\* a persist step that tries the write again after a failure
CacheSetRetries(r) ==
  /\ req[r].pc = "cache_set"
  /\ \E ok \in BOOLEAN :
       LET q == [req[r] EXCEPT !.calls = Bump(@, "set"), !.set_failed = ~ok]
           final_result == FinalResult(q.demographics, q.profile, q.doppelgangers)
       IN  /\ cache' = IF ok THEN [cache EXCEPT ![q.zip_code] = final_result]
                       ELSE cache
           /\ req' = [req EXCEPT ![r] =
                 IF ok THEN Respond(q, FreshResponse(final_result)) ELSE q]
  /\ UNCHANGED <<db, ext>>

\* a persist step whose failed write leaves the document deleted
CacheSetDeletesOnFailure(r) ==
  /\ req[r].pc = "cache_set"
  /\ \E ok \in BOOLEAN :
       LET q == [req[r] EXCEPT !.calls = Bump(@, "set"), !.set_failed = ~ok]
           final_result == FinalResult(q.demographics, q.profile, q.doppelgangers)
       IN  /\ cache' = [cache EXCEPT ![q.zip_code] = IF ok THEN final_result ELSE None]
           /\ req' = [req EXCEPT ![r] = Respond(q, FreshResponse(final_result))]
  /\ UNCHANGED <<db, ext>>

\* a persist step that updates only the demographics of an existing document
CacheSetMerges(r) ==
  /\ req[r].pc = "cache_set"
  /\ \E ok \in BOOLEAN :
       LET q == [req[r] EXCEPT !.calls = Bump(@, "set"), !.set_failed = ~ok]
           final_result == FinalResult(q.demographics, q.profile, q.doppelgangers)
           stored == cache[q.zip_code]
       IN  /\ cache' = IF ~ok THEN cache
                       ELSE IF stored = None
                         THEN [cache EXCEPT ![q.zip_code] = final_result]
                       ELSE [cache EXCEPT ![q.zip_code] =
                               FinalResult(q.demographics, stored.profile,
                                           stored.doppelgangers)]
           /\ req' = [req EXCEPT ![r] = Respond(q, FreshResponse(final_result))]
  /\ UNCHANGED <<db, ext>>

\* a persist step that waits for the store: after a failed write it stays
\* where it is and tries again
CacheSetWaits(r) ==
  /\ req[r].pc = "cache_set"
  /\ \E ok \in BOOLEAN :
       LET q == [req[r] EXCEPT !.calls = [@ EXCEPT !.set = 1],
                               !.set_failed = IF ok THEN FALSE ELSE ~@]
           final_result == FinalResult(q.demographics, q.profile, q.doppelgangers)
       IN  /\ cache' = IF ok THEN [cache EXCEPT ![q.zip_code] = final_result]
                       ELSE cache
           /\ req' = [req EXCEPT ![r] =
                 IF ok THEN Respond(q, FreshResponse(final_result)) ELSE q]
  /\ UNCHANGED <<db, ext>>

\* cache_ref.set(final_result) inside its own try, then the 200 answer
CacheSet(r) ==
  /\ req[r].pc = "cache_set"
  /\ \E ok \in BOOLEAN :
       LET q == [req[r] EXCEPT !.calls = Bump(@, "set"), !.set_failed = ~ok]
           final_result == FinalResult(q.demographics, q.profile, q.doppelgangers)
       IN  /\ cache' = IF ok THEN [cache EXCEPT ![q.zip_code] = final_result]
                       ELSE cache
           /\ req' = [req EXCEPT ![r] = Respond(q, FreshResponse(final_result))]
  /\ UNCHANGED <<db, ext>>

Step(r) ==
  \/ CacheGet(r)
  \/ Fetch(r)
  \/ GetProfile(r)
  \/ FindDoppelgangers(r)
  \/ CacheSet(r)

\* requests overlap freely
Next == \E r \in Requests : Receive(r) \/ Step(r)

Spec == Init /\ [][Next]_vars

\* every collaborator call returns or raises: a request that is inside the
\* handler takes its next step
CallsReturn == \A r \in Requests : WF_vars(Step(r))

SpecLive == Init /\ [][Next]_vars /\ CallsReturn

\* one request at a time: a request arrives when no other is in progress
NoneInProgress == \A q \in Requests : req[q].pc \in {"idle", "done"}

ReceiveAlone(r) == NoneInProgress /\ Receive(r)

NextSeq == \E r \in Requests : ReceiveAlone(r) \/ Step(r)

SpecSeq == Init /\ [][NextSeq]_vars

\* ---------------------------------------------------------------------------
\* fetch_census_demographics on its own: one call, on any of the payloads
\* ---------------------------------------------------------------------------

\* the calls looked at: a failed GET, a reply that is no JSON, a payload
\* without a data row, or a payload with both rows, its columns permuted
Extractions ==
  UNION { {[pc |-> "called", zip_code |-> k, base |-> u, perm |-> Identity,
            upstream |-> u, result |-> None, profile |-> None,
            doppelgangers |-> None]
           : u \in {[kind |-> "request_exception"], [kind |-> "bad_json"],
                    [kind |-> "json", data |-> <<>>],
                    [kind |-> "json", data |-> <<CensusHeaders>>]}}
          \cup
          UNION { {[pc |-> "called", zip_code |-> k,
                    base |-> [kind |-> "json", data |-> data], perm |-> perm,
                    upstream |-> [kind |-> "json", data |-> Permuted(data, perm)],
                    result |-> None, profile |-> None, doppelgangers |-> None]
                   : perm \in PermutationsOf(data)}
                : data \in BasePayloads(k) }
        : k \in Keys }

InitExtract ==
  /\ db = FALSE
  /\ cache = [k \in Keys |-> None]
  /\ req = [r \in Requests |-> IdleRequest]
  /\ ext \in Extractions

\* the call returns
Extract ==
  /\ ext.pc = "called"
  /\ ext' = [ext EXCEPT !.pc = "returned",
                        !.result = fetch_census_demographics(ext.zip_code, ext.upstream)]
  /\ UNCHANGED <<db, cache, req>>

\* the handler goes on with the record: get_gemini_profile, and the except
\* clause of the handler if an exception leaves it
ExtractProfile ==
  /\ ext.pc = "returned"
  /\ ext.result # None
  /\ \E reply \in ProfileReplies :
       LET profile == get_gemini_profile(ext.result, reply)
       IN  ext' = IF profile = Raised THEN [ext EXCEPT !.pc = "failed"]
                  ELSE [ext EXCEPT !.pc = "profiled", !.profile = profile]
  /\ UNCHANGED <<db, cache, req>>

\* find_doppelgangers on the record
ExtractDoppelgangers ==
  /\ ext.pc = "profiled"
  /\ \E reply \in DoppelgangerReplies :
       LET doppelgangers == find_doppelgangers(ext.result, reply)
       IN  ext' = IF doppelgangers = Raised THEN [ext EXCEPT !.pc = "failed"]
                  ELSE [ext EXCEPT !.pc = "generated", !.doppelgangers = doppelgangers]
  /\ UNCHANGED <<db, cache, req>>

NextExtract == Extract \/ ExtractProfile \/ ExtractDoppelgangers

SpecExtract == InitExtract /\ [][NextExtract]_vars

\* ---------------------------------------------------------------------------
\* Properties
\* ---------------------------------------------------------------------------

Done(r) == req[r].pc = "done"

\* the request is a POST whose body gave a zip_code
Accepted(r) == req[r].method = "POST" /\ req[r].zip_code # None

\* r arrived right after q returned, for the same ZIP code, with the store
\* initialised (under SpecSeq no other request runs in between)
Successive(q, r) ==
  /\ db
  /\ r = q + 1
  /\ Done(q) /\ Done(r)
  /\ Accepted(q) /\ Accepted(r)
  /\ req[q].zip_code = req[r].zip_code

SameResponse(q, r) == req[q].status = req[r].status /\ req[q].body = req[r].body

\* C1 as stated: with the store initialised and no cache call raising, two
\* successive requests for the same ZIP code get the same status and body,
\* whatever the Census API and Gemini answer.
C1_IdempotentAsStated ==
  \A q \in Requests, r \in Requests :
    ( /\ Successive(q, r)
      /\ req[q].raised = "none" /\ req[r].raised = "none"
      /\ ~req[q].set_failed /\ ~req[r].set_failed )
    => SameResponse(q, r)

\* C1 amended: once a request has been answered 200 with its entry stored (a
\* hit, or a miss whose write succeeded), the next request for the same ZIP
\* code is a hit with the identical status and body, whatever the Census API
\* and Gemini answer; if its cache read raises it is answered 500 instead.
C1_IdempotentOnceStored ==
  \A q \in Requests, r \in Requests :
    ( /\ Successive(q, r)
      /\ req[q].status = 200
      /\ ~req[q].set_failed )
    => IF req[r].raised = "cache_get"
         THEN req[r].status = 500 /\ req[r].body = InternalErrorResponse.body
         ELSE req[r].hit /\ SameResponse(q, r)

\* a miss that stored its entry, followed by a hit with the same response
C1_Witness ==
  \E q \in Requests, r \in Requests :
    /\ Successive(q, r)
    /\ req[q].status = 200 /\ ~req[q].hit /\ req[q].calls.set = 1
    /\ ~req[q].set_failed
    /\ req[r].hit /\ SameResponse(q, r)

\* C2: when cache_ref.get() returns and the document exists, the request is
\* answered 200 with exactly the stored document, the cache is left as it
\* was, and the read is the only collaborator call the request has made.
C2_HitServesStoredEntry ==
  [][\A r \in Requests :
       ( /\ req[r].pc = "cache_get"
         /\ req'[r] # req[r]
         /\ cache[req[r].zip_code] # None
         /\ req'[r].raised = "none" )
       => /\ req'[r].pc = "done"
          /\ req'[r].status = 200
          /\ req'[r].body = cache[req[r].zip_code]
          /\ cache' = cache
          /\ req'[r].calls = [NoCalls EXCEPT !.get = 1]]_vars

\* a request answered from the cache, with the entry another request stored
C2_Witness ==
  \E r \in Requests :
    /\ Done(r) /\ req[r].hit /\ req[r].status = 200
    /\ req[r].body = cache[req[r].zip_code]
    /\ req[r].calls.census = 0 /\ req[r].calls.set = 0

HeaderOnly == [kind |-> "json", data |-> <<CensusHeaders>>]

\* C3: a header-only payload makes fetch_census_demographics return None, and
\* a request whose extraction returns None ends with 404 and the message
\* naming its ZIP code, has called no generator and written no cache entry,
\* and leaves the cache as it was.
C3_NoDataIsNotFound ==
  [][/\ \A k \in Keys : HeaderOnly \in UpstreamOf[k] /\ DemographicsOf[k][HeaderOnly] = None
     /\ \A r \in Requests :
          ( /\ req[r].pc = "fetch"
            /\ req'[r] # req[r]
            /\ ~req'[r].extracted )
          => /\ req'[r].pc = "done"
             /\ req'[r].status = 404
             /\ req'[r].body = [error |-> Msg("No demographic data found for ZIP code {zip_code}.",
                                              <<req[r].zip_code>>)]
             /\ req'[r].calls.profile = 0
             /\ req'[r].calls.doppel = 0
             /\ req'[r].calls.set = 0
             /\ cache' = cache]_vars

\* a request answered 404 after its one call to the Census API
C3_Witness ==
  \E r \in Requests :
    /\ Done(r) /\ req[r].status = 404
    /\ req[r].calls.census = 1 /\ ~req[r].extracted
    /\ cache[req[r].zip_code] = None

StoredGeneratorError(q) ==
  /\ Done(q) /\ Accepted(q) /\ req[q].extracted
  /\ req[q].profile_raised \/ req[q].doppel_raised
  /\ req[q].calls.set = 1 /\ ~req[q].set_failed

\* C5 as stated: after a miss whose generator failed and whose write
\* succeeded, every later request for that ZIP code is a hit that returns the
\* same entry, error object included, and calls no generator.
C5_ErrorObjectServedToEveryLaterRequest ==
  \A q \in Requests, r \in Requests :
    ( /\ db /\ q < r
      /\ StoredGeneratorError(q)
      /\ Done(r) /\ Accepted(r)
      /\ req[r].zip_code = req[q].zip_code )
    => /\ req[r].hit
       /\ SameResponse(q, r)
       /\ req[r].calls.profile = 0 /\ req[r].calls.doppel = 0

\* C6: the persist step answers 200 with the entry just computed whether or
\* not cache_ref.set raised, after exactly one attempt; a write that raised
\* leaves the cache as it was.
C6_PersistIsBestEffort ==
  [][\A r \in Requests :
       (req[r].pc = "cache_set" /\ req'[r] # req[r])
       => /\ req'[r].pc = "done"
          /\ req'[r].status = 200
          /\ req'[r].body = [demographics |-> req[r].demographics,
                             profile |-> req[r].profile,
                             doppelgangers |-> req[r].doppelgangers]
          /\ req'[r].raised = "none"
          /\ req'[r].calls.set = 1
          /\ req'[r].set_failed => cache' = cache]_vars

\* a request answered 200 with a fresh entry that the store did not take
C6_Witness ==
  \E r \in Requests :
    /\ Done(r) /\ req[r].set_failed /\ req[r].calls.set = 1
    /\ req[r].status = 200
    /\ cache[req[r].zip_code] = None

\* C7 as stated: a request whose cache read or cache write raised has the
\* outcome it would have without a cache: 404, or 200 with the entry it
\* computed itself, after calling the extractor.
C7_CacheFailureKeepsOutcome ==
  \A r \in Requests :
    (Done(r) /\ (req[r].raised = "cache_get" \/ req[r].set_failed))
    => /\ req[r].status \in {200, 404}
       /\ req[r].calls.census = 1
       /\ ~req[r].hit

\* C8: without a store an accepted request never reads or writes the cache,
\* always calls the extractor, and is answered 404 or 200 with a fresh entry.
C8_NoStoreIsAlwaysMiss ==
  ~db =>
    \A r \in Requests :
      /\ req[r].pc \notin {"cache_get", "cache_set"}
      /\ req[r].calls.get = 0 /\ req[r].calls.set = 0
      /\ cache = [k \in Keys |-> None]
      /\ (Done(r) /\ Accepted(r))
         => /\ req[r].calls.census = 1
            /\ ~req[r].hit
            /\ req[r].raised = "none"
            /\ req[r].status = IF req[r].extracted THEN 200 ELSE 404

\* without a store, a request answered 200 with a fresh entry
C8_Witness ==
  /\ ~db
  /\ \E r \in Requests :
       /\ Done(r) /\ Accepted(r) /\ req[r].status = 200
       /\ req[r].calls.census = 1 /\ req[r].calls.profile = 1
       /\ req[r].calls.get = 0 /\ req[r].calls.set = 0

\* the body is a JSON object with a "zip_code" field
HasZipCodeField(data) == "obj" \in DOMAIN data /\ "zip_code" \in data.obj

\* C9 as stated: a POST whose body is absent, or is JSON without a zip_code
\* field, is answered 400 with the missing-field message and calls no
\* collaborator.
C9_MissingZipCodeIs400 ==
  \A r \in Requests :
    ( /\ Done(r) /\ req[r].method = "POST"
      /\ req[r].input # None
      /\ \/ req[r].input.kind = "absent"
         \/ req[r].input.kind = "json" /\ ~HasZipCodeField(req[r].input.data) )
    => /\ req[r].status = 400
       /\ req[r].body = [error |-> Msg("Missing 'zip_code' in JSON body", <<>>)]
       /\ req[r].calls = NoCalls

\* C10: a POST in which an exception reached the handler's except clause is
\* answered 500 with the generic message, and every answered POST has a
\* status among 200, 400, 404 and 500.
C10_EscapedExceptionIs500 ==
  \A r \in Requests :
    (Done(r) /\ req[r].method = "POST")
    => /\ req[r].status \in {200, 400, 404, 500}
       /\ req[r].raised # "none"
            => /\ req[r].status = 500
               /\ req[r].body = [error |-> Msg("An internal server error occurred.", <<>>)]
       /\ req[r].status = 500 => req[r].raised # "none"

\* a POST answered 500 because its cache read raised
C10_Witness ==
  \E r \in Requests :
    /\ Done(r) /\ req[r].method = "POST"
    /\ req[r].raised = "cache_get"
    /\ req[r].status = 500

\* the five collaborator calls of a request
CallNames == {"get", "set", "census", "profile", "doppel"}

\* C11: nothing is retried: a request calls the Census API, the profile
\* generator, the similarity finder, the cache read and the cache write at
\* most once each, whatever fails; a request that missed the cache of an
\* available store and whose extraction succeeded has, when it returns,
\* called each of the five exactly once.
C11_NothingRetried ==
  \A r \in Requests :
    /\ \A c \in CallNames : req[r].calls[c] <= 1
    /\ (Done(r) /\ db /\ req[r].raised = "none" /\ ~req[r].hit
          /\ req[r].extracted)
        => \A c \in CallNames : req[r].calls[c] = 1

\* a request that missed, extracted, saw both generators and the write fail,
\* and returned
C11_Witness ==
  \E r \in Requests :
    /\ Done(r) /\ db /\ ~req[r].hit /\ req[r].extracted
    /\ req[r].profile_raised /\ req[r].doppel_raised /\ req[r].set_failed
    /\ \A c \in CallNames : req[r].calls[c] = 1

\* the numeric fields read from one column with get_value, and their columns
SourceColumn ==
  [population |-> "B01003_001E", medianIncome |-> "B19013_001E",
   raceWhite |-> "B02001_002E", raceBlack |-> "B02001_003E",
   raceNative |-> "B02001_004E", raceAsian |-> "B02001_005E",
   educationPopulation |-> "B15003_001E", educationBachelors |-> "B15003_022E",
   medianHomeValue |-> "B25077_001E", medianRent |-> "B25064_001E",
   housingUnits |-> "B25002_001E", ownerOccupied |-> "B25002_002E",
   renterOccupied |-> "B25002_003E", ageUnder18 |-> "B09001_001E",
   commuteTotal |-> "B08301_001E", commuteDrive |-> "B08301_002E",
   commutePublic |-> "B08301_010E", commuteWfh |-> "B08301_021E"]

\* the call under study has returned, and its payload had both rows
ReturnedWithBothRows ==
  /\ ext.pc = "returned"
  /\ ext.upstream.kind = "json"
  /\ Len(ext.upstream.data) >= 2

\* column is not in the header row of data
ColumnMissing(data, column) == \A i \in 1..Len(data[1]) : data[1][i] # column

\* column is in the header row, and the data row ends before it
ColumnBeyondRow(data, column) ==
  \E i \in 1..Len(data[1]) : data[1][i] = column /\ i > Len(data[2])

\* column is in both rows and holds null or a text that is no number
ColumnNonNumeric(data, column) ==
  \E i \in 1..Len(data[1]) :
    /\ data[1][i] = column
    /\ i <= Len(data[2])
    /\ data[2][i] \in {NonNumeric, None}

ZeroFloat == [m |-> 0, e |-> 0]

\* C12: a payload with a header row and a data row always gives a record, in
\* which a numeric field, medianAge included, is 0 when its column is
\* missing, holds no number or lies beyond the end of the row, and a text
\* field is "" when its column is missing.
C12_DefaultingNeverFailsExtraction ==
  ReturnedWithBothRows =>
    LET data == ext.upstream.data
        Defaulted(column) ==
          \/ ColumnMissing(data, column)
          \/ ColumnBeyondRow(data, column)
          \/ ColumnNonNumeric(data, column)
    IN  /\ ext.result # None
        /\ \A f \in DOMAIN SourceColumn :
             Defaulted(SourceColumn[f]) => ext.result[f] = 0
        /\ Defaulted("B01002_001E") => ext.result.medianAge = ZeroFloat
        /\ ColumnMissing(data, "NAME") => ext.result.name = Str(<<>>)

\* the GET failed, or its payload has fewer than two rows, or building the
\* dictionary from it raises
ExtractionFails(upstream) ==
  \/ upstream.kind # "json"
  \/ Len(upstream.data) < 2
  \/ ~MedianAgeOf(upstream.data[1], upstream.data[2]).ok

\* every failing outcome of the GET gives None, for every ZIP code asked
\* for, and one of them is a payload of two rows
EveryFailureGivesNone ==
  \A k \in Keys :
    /\ \A u \in UpstreamOf[k] : ExtractionFails(u) => DemographicsOf[k][u] = None
    /\ \E u \in UpstreamOf[k] :
         ExtractionFails(u) /\ u.kind = "json" /\ Len(u.data) >= 2

Extracted == ext.pc = "returned" /\ ext.result # None

\* the value get_value reads for column in the payload of the call
Cell(column) == get_value(ext.upstream.data[1], ext.upstream.data[2], column)

\* C14: in every extracted record age65plus is the sum of the twelve
\* brackets B01001_020E..025E and B01001_044E..049E, and age18to64 is
\* population - ageUnder18 - age65plus, not clamped: it is negative when the
\* two other bands exceed the population, the three bands add up to the
\* population, and population 20000 with 3000 under 18 and brackets
\* summing to 5000 gives 12000.
C14_AgeBands ==
  Extracted =>
    LET d == ext.result
    IN  /\ d.age65plus =
             Cell("B01001_020E") + Cell("B01001_021E") + Cell("B01001_022E")
             + Cell("B01001_023E") + Cell("B01001_024E") + Cell("B01001_025E")
             + Cell("B01001_044E") + Cell("B01001_045E") + Cell("B01001_046E")
             + Cell("B01001_047E") + Cell("B01001_048E") + Cell("B01001_049E")
        /\ d.age18to64 = d.population - d.ageUnder18 - d.age65plus
        /\ d.ageUnder18 + d.age18to64 + d.age65plus = d.population
        /\ d.ageUnder18 + d.age65plus > d.population => d.age18to64 < 0
        /\ (d.population = 20000 /\ d.ageUnder18 = 3000 /\ d.age65plus = 5000)
           => d.age18to64 = 12000

\* a record whose two outer bands exceed its population, from a payload
\* whose columns are permuted: the middle band is negative
C14_Witness ==
  /\ Extracted
  /\ ext.perm # Identity
  /\ ext.result.population = 1000 /\ ext.result.ageUnder18 = 3000
  /\ ext.result.age65plus = 5000 /\ ext.result.age18to64 = 0 - 7000

\* what the cell of column counts for: 0 when the column is missing, lies
\* beyond the end of the row or holds no number, else the number it holds
Taken(column) ==
  LET data == ext.upstream.data
  IN  IF \/ ColumnMissing(data, column)
         \/ ColumnBeyondRow(data, column)
         \/ ColumnNonNumeric(data, column)
      THEN 0
      ELSE ParseInt(data[2][HeaderIndex(data[1], column)]).v

\* C15: in every extracted record educationGraduate is the sum of the
\* master's (B15003_023E), professional (B15003_024E) and doctorate
\* (B15003_025E) values, each counted as 0 when missing or non-numeric; a
\* row of zeros gives 0.
C15_EducationGraduate ==
  Extracted =>
    /\ ext.result.educationGraduate =
         Taken("B15003_023E") + Taken("B15003_024E") + Taken("B15003_025E")
    /\ ( /\ Taken("B15003_023E") = 0
         /\ Taken("B15003_024E") = 0
         /\ Taken("B15003_025E") = 0 ) => ext.result.educationGraduate = 0

\* a record whose professional-degree cell holds no number: the sum is
\* that of the 2000 master's and the 500 doctorates
C15_Witness ==
  /\ Extracted
  /\ ColumnNonNumeric(ext.upstream.data, "B15003_024E")
  /\ Taken("B15003_023E") = 2000 /\ Taken("B15003_025E") = 500
  /\ ext.result.educationGraduate = 2500

\* q carried zip_code as a number and r as the string of its decimal digits
NumberAndItsDigits(q, r) ==
  /\ Accepted(q) /\ Accepted(r)
  /\ "n" \in DOMAIN req[q].input.data.zip_code
  /\ req[r].input.data.zip_code = Str(IntToStr(req[q].input.data.zip_code.n))

\* C16: zip_code is made a string before any use: a request carrying the
\* number n and a request carrying the string of n's decimal digits have
\* the same document id and geography filter, that string; and when one
\* follows the other, the first having been answered 200 with its entry
\* stored, the second is a hit on that entry with the same response (or
\* 500 if its cache read raises).
C16_NumberAndStringShareEntry ==
  \A q \in Requests, r \in Requests :
    NumberAndItsDigits(q, r)
    => /\ req[q].zip_code = req[r].zip_code
       /\ req[q].zip_code = req[r].input.data.zip_code
       /\ \A a \in {q, r}, b \in {q, r} :
            ( /\ Successive(a, b)
              /\ req[a].status = 200 /\ ~req[a].set_failed
              /\ req[b].raised # "cache_get" )
            => req[b].hit /\ SameResponse(a, b)

\* a request with the number misses and stores its entry; the next, with the
\* string, is a hit and gets the same response
C16_Witness ==
  \E q \in Requests, r \in Requests :
    /\ NumberAndItsDigits(q, r)
    /\ Successive(q, r)
    /\ req[q].status = 200 /\ ~req[q].hit /\ ~req[q].set_failed
    /\ req[r].hit /\ SameResponse(q, r)
    /\ cache[req[r].input.data.zip_code] = req[r].body

\* C17 as stated: once an entry is stored under a ZIP code, no step removes
\* it or replaces it with a different value, overlapping misses included.
C17_StoredEntryNeverChanges ==
  [][\A k \in Keys : cache[k] # None => cache'[k] = cache[k]]_vars

\* C17 amended: no step removes a stored entry, and the only step that
\* replaces it is the successful cache write of a request for the same ZIP
\* code that missed, which stores that request's own result.
C17_ReplacedOnlyByLateWriter ==
  [][\A k \in Keys :
       cache[k] # None
       => /\ cache'[k] # None
          /\ cache'[k] # cache[k]
             => \E r \in Requests :
                  /\ req[r].pc = "cache_set" /\ req[r].zip_code = k
                  /\ ~req[r].hit /\ req[r].calls.get = 1
                  /\ req'[r].pc = "done" /\ ~req'[r].set_failed
                  /\ req'[r].status = 200
                  /\ cache'[k] = req'[r].body]_vars

\* two overlapping misses for one ZIP code have each stored their result; the
\* entry of the first has been replaced by the different entry of the second
C17_Witness ==
  \E q \in Requests, r \in Requests :
    /\ q # r
    /\ Done(q) /\ Done(r)
    /\ req[q].zip_code = req[r].zip_code
    /\ ~req[q].hit /\ ~req[r].hit
    /\ req[q].calls.set = 1 /\ req[r].calls.set = 1
    /\ ~req[q].set_failed /\ ~req[r].set_failed
    /\ req[q].body # req[r].body
    /\ cache[req[r].zip_code] = req[r].body

\* C18: every request keeps the order of handle_find_twin. With a store the
\* cache is read before the Census API is called; the Census API is called,
\* and has given a record, before either generator is called; the profile
\* generator before the similarity finder; both before the cache write;
\* the response is not set before the write has been attempted (with a
\* store) or skipped (without); and an entry in the cache holds a record.
C18_StepsInOrder ==
  /\ \A r \in Requests :
       LET c == req[r].calls
       IN  /\ (c.census = 1 /\ db) => c.get = 1
           /\ c.get = 1 => db
           /\ c.profile = 1 => (c.census = 1 /\ req[r].extracted)
           /\ c.doppel = 1 => c.profile = 1
           /\ c.set = 1 => (c.doppel = 1 /\ c.profile = 1 /\ req[r].extracted /\ db)
           /\ ~Done(r) => (req[r].status = 0 /\ req[r].body = None)
           /\ req[r].pc = "cache_set" => (c.doppel = 1 /\ c.set = 0)
           /\ (Done(r) /\ req[r].status = 200 /\ req[r].method = "POST" /\ ~req[r].hit)
              => (c.doppel = 1 /\ c.set = (IF db THEN 1 ELSE 0))
  /\ \A k \in Keys : cache[k] # None => cache[k].demographics # None

\* a request that has read the cache, called the Census API and both
\* generators, and is about to write: it has no response yet
C18_Witness ==
  \E r \in Requests :
    /\ db
    /\ req[r].pc = "cache_set"
    /\ req[r].calls = [NoCalls EXCEPT !.get = 1, !.census = 1, !.profile = 1, !.doppel = 1]
    /\ req[r].status = 0
    /\ cache[req[r].zip_code] = None

\* C19: columns are found by header name, not by position: the record
\* extracted from a payload whose header row and data row went through the
\* same permutation is, field for field, the record extracted from the
\* payload as it was (and None where that gives None).
C19_ColumnOrderIsIrrelevant ==
  ( /\ ext.pc = "returned"
    /\ ext.base.kind = "json"
    /\ Len(ext.base.data) >= 2 )
  => /\ ext.upstream.data = Permuted(ext.base.data, ext.perm)
     /\ ext.result = fetch_census_demographics(ext.zip_code, ext.base)

\* a record extracted from a payload whose columns were rotated and
\* reversed, so that no column asked for is where it was
C19_Witness ==
  /\ Extracted
  /\ ext.perm.reversed /\ ext.perm.shift > 0
  /\ \A i \in 1..Len(ext.base.data[1]) :
       ext.upstream.data[1][i] # ext.base.data[1][i]
  /\ ext.result.name = AreaName(Echoed(ext.zip_code))
  /\ ext.result.population = 20000
  /\ ext.result.commuteWfh = 2000
  /\ ext.result.zipCode = Echoed(ext.zip_code)

\* the zipCode a record can have when built from an answer to the GET for
\* k: the geography id of its data row, or k when the row has none
RecordZipCodes ==
  [k \in Keys |->
     {ZipCodeOf(k, u.data[1], u.data[2]) :
        u \in {v \in UpstreamOf[k] : v.kind = "json" /\ Len(v.data) >= 2}}]

\* C20 as stated: every entry written under a document id k has
\* demographics.zipCode equal to k, whatever string the request carried and
\* whatever the Census API answered.
C20_ZipCodeIsCacheKey ==
  \A k \in Keys : cache[k] # None => cache[k].demographics.zipCode = k

\* C20 amended: the entry written under k has as demographics.zipCode the
\* geography id of the data row the Census API returned for k (k itself
\* when the row has none); for a ZIP code the API echoes, that is k.
C20_ZipCodeIsEchoedGeography ==
  \A k \in Keys :
    cache[k] # None
    => /\ cache[k].demographics.zipCode \in RecordZipCodes[k]
       /\ cache[k].demographics.zipCode = Echoed(k)
       /\ Echoed(k) = k => cache[k].demographics.zipCode = k

\* the entry stored for the request string "*" carries the ZIP code of the
\* first area of the answer
C20_Witness ==
  /\ cache[ZipWildcard] # None
  /\ cache[ZipWildcard].demographics.zipCode = Zip00601
  /\ \E r \in Requests :
       /\ Done(r) /\ req[r].zip_code = ZipWildcard
       /\ req[r].calls.set = 1 /\ ~req[r].set_failed
       /\ req[r].body = cache[ZipWildcard]

\* the handler has gone on with the record of the call under study
Prompted == ext.pc \in {"profiled", "generated", "failed"}

\* C21: for every record the extractor gives, the row of zeros included,
\* each percentage of get_gemini_profile (higher education, owner-occupied,
\* work from home, under 18, 65 and over) and of find_doppelgangers (higher
\* education, owner-occupied) is 0 when its denominator is 0, no division
\* raises, and the handler does not reach its except clause because of
\* them.
C21_PercentagesGuarded ==
  Prompted =>
    LET d == ext.result
        p == profile_percents(d)
        g == doppelganger_percents(d)
    IN  /\ ~PercentsRaised(p) /\ ~PercentsRaised(g)
        /\ d.educationPopulation = 0
           => (p.higher_ed_percent.tenths = 0 /\ g.higher_ed_percent.tenths = 0)
        /\ d.housingUnits = 0
           => (p.owner_occupied_percent.tenths = 0 /\ g.owner_occupied_percent.tenths = 0)
        /\ d.commuteTotal = 0 => p.wfh_percent.tenths = 0
        /\ d.population = 0
           => (p.age_under_18_percent.tenths = 0 /\ p.age_65_plus_percent.tenths = 0)
        /\ ext.pc # "failed"
        /\ ext.profile # Raised
        /\ ext.doppelgangers # Raised

\* both generators have run on the record of an area where every count is 0
C21_Witness ==
  /\ ext.pc = "generated"
  /\ ext.result.population = 0 /\ ext.result.educationPopulation = 0
  /\ ext.result.housingUnits = 0 /\ ext.result.commuteTotal = 0
  /\ ext.profile # None /\ ext.doppelgangers # None
  /\ profile_percents(ext.result).higher_ed_percent.tenths = 0

\* entry has the three parts of a result and nothing else
WholeEntry(entry) == DOMAIN entry = {"demographics", "profile", "doppelgangers"}

\* r missed, computed its result for the document id k and stored it
StoredItsResult(r, k) ==
  /\ Done(r) /\ req[r].zip_code = k /\ req[r].status = 200
  /\ ~req[r].hit /\ req[r].calls.set = 1 /\ ~req[r].set_failed

\* C22: entries are never torn. In every state, however requests overlap,
\* each stored entry is the whole {demographics, profile, doppelgangers}
\* result of one request that stored it; a 200 answer to a hit is the whole
\* result of one such request; and the 200 answer of a miss is the triple
\* of that request's own demographics, profile and doppelgangers, which is
\* also what its write stores.
C22_EntriesNeverTorn ==
  /\ [](\A k \in Keys :
          cache[k] # None
          => /\ WholeEntry(cache[k])
             /\ \E r \in Requests : StoredItsResult(r, k) /\ req[r].body = cache[k])
  /\ [](\A r \in Requests :
          (Done(r) /\ req[r].method = "POST" /\ req[r].status = 200)
          => /\ WholeEntry(req[r].body)
             /\ req[r].hit
                => \E q \in Requests \ {r} :
                     StoredItsResult(q, req[r].zip_code) /\ req[q].body = req[r].body)
  /\ [][\A r \in Requests :
          /\ (req[r].pc = "cache_set" /\ req'[r] # req[r])
             => /\ req'[r].status = 200
                /\ req'[r].body = FinalResult(req[r].demographics, req[r].profile,
                                              req[r].doppelgangers)
                /\ cache'[req[r].zip_code] \in {cache[req[r].zip_code], req'[r].body}
          /\ (req[r].pc = "doppel" /\ req'[r].pc = "done" /\ req'[r].status = 200)
             => /\ req'[r].body.demographics = req[r].demographics
                /\ req'[r].body.profile = req[r].profile
                /\ req'[r].body.doppelgangers \in
                     {find_doppelgangers(req[r].demographics, reply)
                        : reply \in DoppelgangerReplies}]_vars

\* two overlapping misses for one ZIP code stored results that differ in the
\* demographics and in the profile; the entry is the second one, whole
C22_Witness ==
  \E q \in Requests, r \in Requests :
    /\ q # r
    /\ StoredItsResult(q, req[r].zip_code) /\ StoredItsResult(r, req[r].zip_code)
    /\ req[q].body.demographics # req[r].body.demographics
    /\ req[q].body.profile # req[r].body.profile
    /\ cache[req[r].zip_code] = req[r].body
    /\ cache[req[r].zip_code] # req[q].body

\* how far a request is through handle_find_twin
Rank(pc) ==
  CASE pc = "idle" -> 0
    [] pc = "cache_get" -> 1
    [] pc = "fetch" -> 2
    [] pc = "profile" -> 3
    [] pc = "doppel" -> 4
    [] pc = "cache_set" -> 5
    [] pc = "done" -> 6

\* C23: every request terminates. When every collaborator call returns or
\* raises, a request that has arrived reaches its response; each step takes
\* it further through the handler, so that there is no loop and no waiting
\* state and a response, once sent, is never replaced; and the response is
\* one of 200, 400, 404 and 500, set when the request ends and not before.
C23_EveryRequestTerminates ==
  /\ \A r \in Requests : (req[r].pc # "idle") ~> Done(r)
  /\ [][\A r \in Requests :
          req'[r] # req[r] => Rank(req'[r].pc) > Rank(req[r].pc)]_vars
  /\ [](\A r \in Requests :
          IF Done(r) THEN req[r].status \in {200, 400, 404, 500}
          ELSE req[r].status = 0 /\ req[r].body = None)

\* every request has ended, one with 500 after its cache read raised and one
\* with the fresh 200 of a miss
C23_Witness ==
  /\ \A r \in Requests : Done(r)
  /\ \E r \in Requests : req[r].status = 500 /\ req[r].raised = "cache_get"
  /\ \E r \in Requests :
       req[r].status = 200 /\ ~req[r].hit /\ req[r].calls.doppel = 1

====
